---- MODULE Spec2Model ----
(***************************************************************************)
(* Song identity, song merge and score reconciliation of wavebreaker-rs.   *)
(*                                                                         *)
(* The durable store (Postgres: songs, extra_song_info, scores) and the    *)
(* aggregate cache (Redis: skill points per player) are the state.  Every  *)
(* statement that is awaited on its own in the source is one step, so the  *)
(* states between two statements of merge_into, Song::delete and a ride    *)
(* submission are states of the model, and an operation may fail (its `?`  *)
(* returns Err) between any two of them.                                   *)
(***************************************************************************)
EXTENDS Integers, Sequences, FiniteSets, TLC

\* ------------------------------------------------------------------ bounds
\* Score values submitted by clients and found in the store: 1..MaxScore.
MaxScore == 2
\* Play counts of the Scores in an initial store: 1..MaxPlayCount.
MaxPlayCount == 2
\* Song ids are a serial column; inserts stop once it passes MaxSongId.
MaxSongId == 3
\* Operations started in one behaviour.
MaxOps == 2
\* Rides submitted in one behaviour.
MaxRides == 3

\* ----------------------------------------------------------------- domains
Players == {1, 2}
\* util::game_types::League (two of its variants)
Leagues == {"Casual", "Pro"}
\* Titles and artists.  "BAR" and "bar", "ABBA" and "abba" differ in letter case only.
Titles == {"bar", "BAR", "foo"}
Artists == {"abba", "ABBA"}
\* SQL NULL / Option::None of a text column
NULL == "<null>"
Callers == {1, 2}

\* SQL lower() on the strings of the model; lower(NULL) is NULL.
Lower(s) == CASE s = "BAR" -> "bar"
              [] s = "ABBA" -> "abba"
              [] OTHER -> s

VARIABLES
    songs,            \* table songs: set of [id, title, artist]
    extra_song_info,  \* table extra_song_info: set of rows
    scores,           \* table scores: set of rows
    redis,            \* skill points per player
    next_song_id,     \* serial of songs.id
    next_score_id,    \* serial of scores.id
    pc,               \* position of the operation in flight ("idle": none)
    loc,              \* locals of the operation in flight
    foc,              \* per caller: position and arguments of find_or_create
    result,           \* what the last finished operation returned
    pre,              \* the stores when the operation in flight (or last) began
    log,              \* find_or_create calls finished in immediate succession
    hist,             \* per (player, song, league): rides submitted, their max, cache credit
    undec,            \* per player: durable deletes whose cache decrement has not happened
    ops,              \* operations started
    rivalries,        \* table rivalries: set of [challenger_id, rival_id]
    merges            \* the merge_into calls that have returned: result, stores before

vars == <<songs, extra_song_info, scores, redis, next_song_id, next_score_id,
          pc, loc, foc, result, pre, log, hist, undec, ops, rivalries, merges>>

\* --------------------------------------------------------------- records
NoSong == [id |-> 0, title |-> NULL, artist |-> NULL]
NoScore == [id |-> 0, player_id |-> 0, song_id |-> 0, league |-> NULL,
            score |-> 0, play_count |-> 0]

RECURSIVE SumOf(_)
SumOf(S) == IF S = {} THEN 0
            ELSE LET x == CHOOSE y \in S : TRUE
                 IN x.score + SumOf(S \ {x})

\* Sum of the durable Score values of player p
ScoreSum(tbl, p) == SumOf({s \in tbl : s.player_id = p})

SeqToSet(q) == {q[i] : i \in 1..Len(q)}

Store == [songs |-> songs, extra |-> extra_song_info, scores |-> scores,
          redis |-> redis, rivalries |-> rivalries]

\* The rival-facing fields of SendRideResponse
NoBeatScore == [dethroned |-> FALSE, friend |-> FALSE, rival_name |-> NULL,
                rival_score |-> 0]

\* What an operation returned, and the arguments it was called with.
NoResult == [op |-> "none", status |-> "none", id |-> 0, inserted |-> FALSE,
             title |-> NULL, artist |-> NULL, ticket |-> NULL, league |-> NULL,
             score |-> 0, target_id |-> 0, should_alias |-> FALSE,
             error |-> NULL, track_shape |-> <<>>, xstats |-> <<>>,
             beat_score |-> NoBeatScore,
             challenger_id |-> 0, rival_id |-> 0, mutual |-> FALSE]

NoStore == [songs |-> {}, extra |-> {}, scores |-> {}, redis |-> [p \in Players |-> 0],
            rivalries |-> {}]

IdleFoc == [pc |-> "idle", title |-> NULL, artist |-> NULL, overlap |-> FALSE,
            snap |-> NoStore]

IdleLoc == [self |-> NoSong, target |-> NoSong, target_id |-> 0,
            should_alias |-> FALSE, target_scores |-> {}, own_scores |-> {},
            own |-> NoScore, tgt |-> NoScore, del |-> NoScore,
            del_scores |-> {}, ret |-> "idle", op |-> "none", ride |-> NoScore,
            ticket |-> NULL, track_shape |-> <<>>, xstats |-> <<>>]

AllFocIdle == \A c \in Callers : foc[c].pc = "idle"

\* No operation and no find_or_create call is in flight, and one more may start.
CanStart == pc = "idle" /\ AllFocIdle /\ ops < MaxOps

\* ------------------------------------------------ NewSong::find_or_create
\* songs::table.inner_join(extra_song_info::table): a song with no
\* extra_song_info row is in no row of the join.
InnerJoin(S, E) == {r \in S \X E : r[2].song_id = r[1].id}

\* aliases_title.contains(vec![x]) (Postgres @>); an empty or NULL array contains nothing
Contains(arr, x) == \E i \in 1..Len(arr) : arr[i] = x

\* lower(column).eq(x): the stored column is lowered, the input is compared as it is;
\* a NULL column compares to nothing.
LowerEq(col, x) == col # NULL /\ Lower(col) = x

title_predicate(s, e, t) ==
    \/ s.title = t
    \/ LowerEq(e.musicbrainz_title, t)
    \/ Contains(e.aliases_title, t)

artist_predicate(s, e, a) ==
    \/ s.artist = a
    \/ LowerEq(e.musicbrainz_artist, a)
    \/ Contains(e.aliases_artist, a)

\* The rows the query of find_or_create selects from.
FocRows(S, E, t, a) ==
    {r \in InnerJoin(S, E) : title_predicate(r[1], r[2], t) /\ artist_predicate(r[1], r[2], a)}

FocEntry(c, t, a, id, ins) ==
    [caller |-> c, title |-> t, artist |-> a, id |-> id, inserted |-> ins]

\* The calls finished in immediate succession: the last two are kept.
Logged(e, overlap) ==
    IF overlap THEN <<>>
    ELSE IF Len(log) = 0 THEN <<e>> ELSE <<log[Len(log)], e>>

FocResult(t, a, id, ins) ==
    [NoResult EXCEPT !.op = "find_or_create", !.status = "Ok", !.id = id,
                     !.inserted = ins, !.title = t, !.artist = a]

\* The query: .first() of the filtered join.  There is no ORDER BY, so any
\* matching row may be the first.  Ok(row) returns; Err(_) goes on to the insert.
FocQuery(c, t, a) ==
    /\ pc = "idle" /\ ops < MaxOps
    /\ foc[c].pc = "idle"
    /\ ops' = ops + 1
    /\ LET rows == FocRows(songs, extra_song_info, t, a)
           busy == \E d \in Callers \ {c} : foc[d].pc # "idle"
       IN IF rows # {}
          THEN \E r \in rows :
                 /\ foc' = [d \in Callers |->
                             IF d = c THEN IdleFoc
                             ELSE [foc[d] EXCEPT !.overlap = (foc[d].pc # "idle")]]
                 /\ result' = FocResult(t, a, r[1].id, FALSE)
                 /\ pre' = Store
                 /\ log' = Logged(FocEntry(c, t, a, r[1].id, FALSE), busy)
          ELSE /\ foc' = [d \in Callers |->
                           IF d = c
                           THEN [pc |-> "insert", title |-> t, artist |-> a,
                                 overlap |-> busy, snap |-> Store]
                           ELSE [foc[d] EXCEPT !.overlap = (foc[d].pc # "idle")]]
               /\ log' = IF busy THEN <<>> ELSE log
               /\ UNCHANGED <<result, pre>>
    /\ UNCHANGED <<rivalries, merges, songs, extra_song_info, scores, redis,
                   next_song_id, next_score_id, pc, loc, hist, undec>>

\* (mutant) the insert is an upsert on (title, artist): ON CONFLICT, the row that is
\* there is returned
FocInsert_Upsert(c) ==
    /\ foc[c].pc = "insert"
    /\ next_song_id <= MaxSongId
    /\ LET there == {x \in songs : x.title = foc[c].title /\ x.artist = foc[c].artist}
           new == [id |-> next_song_id, title |-> foc[c].title, artist |-> foc[c].artist]
       IN IF there # {}
          THEN \E x \in there :
                 /\ result' = FocResult(x.title, x.artist, x.id, FALSE)
                 /\ log' = Logged(FocEntry(c, x.title, x.artist, x.id, FALSE),
                                  foc[c].overlap)
                 /\ UNCHANGED <<songs, next_song_id>>
          ELSE /\ songs' = songs \cup {new}
               /\ next_song_id' = next_song_id + 1
               /\ result' = FocResult(new.title, new.artist, new.id, TRUE)
               /\ log' = Logged(FocEntry(c, new.title, new.artist, new.id, TRUE),
                                foc[c].overlap)
    /\ pre' = foc[c].snap
    /\ foc' = [foc EXCEPT ![c] = IdleFoc]
    /\ UNCHANGED <<rivalries, merges, extra_song_info, scores, redis, next_score_id,
                   pc, loc, hist, undec, ops>>

\* diesel::insert_into(songs::table).values(self).get_result(conn)
FocInsert(c) ==
    /\ foc[c].pc = "insert"
    /\ next_song_id <= MaxSongId
    /\ LET new == [id |-> next_song_id, title |-> foc[c].title, artist |-> foc[c].artist]
       IN /\ songs' = songs \cup {new}
          /\ next_song_id' = next_song_id + 1
          /\ result' = FocResult(new.title, new.artist, new.id, TRUE)
          /\ pre' = foc[c].snap
          /\ log' = Logged(FocEntry(c, new.title, new.artist, new.id, TRUE), foc[c].overlap)
    /\ foc' = [foc EXCEPT ![c] = IdleFoc]
    /\ UNCHANGED <<rivalries, merges, extra_song_info, scores, redis, next_score_id,
                   pc, loc, hist, undec, ops>>

\* --------------------------------------------------- metadata of a song
NewInfo(sid, mt, ma, at, aa) ==
    [song_id |-> sid, musicbrainz_title |-> mt, musicbrainz_artist |-> ma,
     aliases_title |-> at, aliases_artist |-> aa]

MetaResult(name, sid) ==
    [NoResult EXCEPT !.op = name, !.status = "Ok", !.id = sid]

\* Song::auto_add_metadata: bails if the song has an extra_song_info row at all,
\* else inserts the looked-up metadata (mt, ma: what MusicBrainz returned).
AutoAddMetadata(s, mt, ma) ==
    /\ CanStart
    /\ s \in songs
    /\ ops' = ops + 1
    /\ extra_song_info' =
         IF \E e \in extra_song_info : e.song_id = s.id
         THEN extra_song_info
         ELSE extra_song_info \cup {NewInfo(s.id, mt, ma, <<>>, <<>>)}
    /\ result' = MetaResult("auto_add_metadata", s.id)
    /\ pre' = Store
    /\ log' = <<>>
    /\ UNCHANGED <<rivalries, merges, songs, scores, redis, next_song_id, next_score_id,
                   pc, loc,
                   foc, hist, undec>>

\* Song::add_metadata_mbid: updates the MusicBrainz fields of the existing row,
\* or inserts a row if there is none.
AddMetadataMbid(s, mt, ma) ==
    /\ CanStart
    /\ s \in songs
    /\ ops' = ops + 1
    /\ extra_song_info' =
         IF \E e \in extra_song_info : e.song_id = s.id
         THEN {IF e.song_id = s.id
               THEN [e EXCEPT !.musicbrainz_title = mt, !.musicbrainz_artist = ma]
               ELSE e : e \in extra_song_info}
         ELSE extra_song_info \cup {NewInfo(s.id, mt, ma, <<>>, <<>>)}
    /\ result' = MetaResult("add_metadata_mbid", s.id)
    /\ pre' = Store
    /\ log' = <<>>
    /\ UNCHANGED <<rivalries, merges, songs, scores, redis, next_song_id, next_score_id,
                   pc, loc,
                   foc, hist, undec>>

\* ------------------------------------------------------------ Score::delete
OpResult(status) ==
    [NoResult EXCEPT !.op = loc.op, !.status = status,
                     !.id = IF loc.op = "send_ride" THEN loc.own.song_id ELSE loc.self.id,
                     !.ticket = loc.ticket, !.target_id = loc.target_id,
                     !.should_alias = loc.should_alias,
                     !.error = IF status = "Err" THEN "StoreFailure" ELSE NULL,
                     !.track_shape = loc.track_shape, !.xstats = loc.xstats]

\* merge_into has returned r: the call is written down with the stores it began on.
Returned(op, r) ==
    IF op = "merge_into" THEN Append(merges, [result |-> r, pre |-> pre]) ELSE merges

\* Any awaited statement may return Err: `?` returns it to the caller and the
\* operation ends where it stands, with what it has written so far.
Fail ==
    /\ pc # "idle"
    /\ pc' = "idle"
    /\ loc' = IdleLoc
    /\ result' = OpResult("Err")
    /\ merges' = Returned(loc.op, OpResult("Err"))
    /\ log' = <<>>
    /\ UNCHANGED <<rivalries, songs, extra_song_info, scores, redis, next_song_id,
                   next_score_id, foc, pre, hist, undec, ops>>

\* DELETE FROM scores WHERE id = sc.id
DeleteRow(tbl, sc) == {x \in tbl : x.id # sc.id}

\* UPDATE scores SET ... WHERE id = sc.id (save_changes writes the struct's fields)
SaveRow(tbl, sc) == {IF x.id = sc.id THEN sc ELSE x : x \in tbl}

\* Score::delete, first statement: the row is deleted from the durable store.
\* The cache still holds its value: loc.del, then pc = "del_cache".
ScoreDeleteDurable(sc, ret, l) ==
    /\ scores' = DeleteRow(scores, sc)
    /\ undec' = [undec EXCEPT ![sc.player_id] = @ + sc.score]
    /\ pc' = "del_cache"
    /\ loc' = [l EXCEPT !.del = sc, !.ret = ret]

\* Score::delete, second statement: the value of the deleted Score is subtracted
\* from the player's skill points.
ScoreDeleteCache ==
    /\ pc = "del_cache"
    /\ redis' = [redis EXCEPT ![loc.del.player_id] = @ - loc.del.score]
    /\ undec' = [undec EXCEPT ![loc.del.player_id] = @ - loc.del.score]
    /\ pc' = loc.ret
    /\ loc' = [loc EXCEPT !.del = NoScore, !.ret = "idle"]
    /\ UNCHANGED <<rivalries, merges, songs, extra_song_info, scores, next_song_id,
                   next_score_id,
                   foc, result, pre, log, hist, ops>>

\* ------------------------------------------------------------ Song::delete
\* Song::delete as an operation of its own (the merge calls it at its end).
DeleteStart(s) ==
    /\ CanStart
    /\ s \in songs
    /\ ops' = ops + 1
    /\ pc' = "d_load"
    /\ loc' = [IdleLoc EXCEPT !.self = s, !.op = "delete"]
    /\ pre' = Store
    /\ log' = <<>>
    /\ UNCHANGED <<rivalries, merges, songs, extra_song_info, scores, redis,
                   next_song_id,
                   next_score_id, foc, result, hist, undec>>

\* scores.filter(song_id.eq(self.id)).load(conn)
DeleteLoad ==
    /\ pc = "d_load"
    /\ pc' = "d_loop"
    /\ loc' = [loc EXCEPT !.del_scores = {x \in scores : x.song_id = loc.self.id}]
    /\ UNCHANGED <<rivalries, merges, songs, extra_song_info, scores, redis,
                   next_song_id,
                   next_score_id, foc, result, pre, log, hist, undec, ops>>

\* for score in ass_scores { score.delete(conn, redis_conn).await?; }
DeleteScore ==
    /\ pc = "d_loop"
    /\ \E sc \in loc.del_scores :
         ScoreDeleteDurable(sc, "d_loop", [loc EXCEPT !.del_scores = @ \ {sc}])
    /\ UNCHANGED <<rivalries, merges, songs, extra_song_info, redis, next_song_id,
                   next_score_id,
                   foc, result, pre, log, hist, ops>>

\* (mutant) the Song row is deleted without waiting for the end of the loop
DeleteSong_Early ==
    /\ pc = "d_loop"
    /\ songs' = {x \in songs : x.id # loc.self.id}
    /\ extra_song_info' = {e \in extra_song_info : e.song_id # loc.self.id}
    /\ pc' = "idle"
    /\ loc' = IdleLoc
    /\ result' = OpResult("Ok")
    /\ merges' = Returned(loc.op, OpResult("Ok"))
    /\ UNCHANGED <<rivalries, scores, redis, next_song_id, next_score_id, foc,
                   pre, log, hist, undec, ops>>

\* diesel::delete(songs.filter(id.eq(self.id))); the song's extra_song_info row
\* goes with it (foreign key of extra_song_info, ON DELETE CASCADE).
DeleteSong ==
    /\ pc = "d_loop"
    /\ loc.del_scores = {}
    /\ songs' = {x \in songs : x.id # loc.self.id}
    /\ extra_song_info' = {e \in extra_song_info : e.song_id # loc.self.id}
    /\ pc' = "idle"
    /\ loc' = IdleLoc
    /\ result' = OpResult("Ok")
    /\ merges' = Returned(loc.op, OpResult("Ok"))
    /\ UNCHANGED <<rivalries, scores, redis, next_song_id, next_score_id, foc,
                   pre, log, hist, undec, ops>>

\* -------------------------------------------------------- Song::merge_into
\* (mutant) the target is not looked up: the merge goes on with the id it was given
MergeStart_Unchecked(s, target_id, should_alias) ==
    /\ CanStart
    /\ s \in songs
    /\ target_id # s.id
    /\ ops' = ops + 1
    /\ pre' = Store
    /\ log' = <<>>
    /\ pc' = "m_loop"
    /\ loc' = [IdleLoc EXCEPT
                 !.self = s, !.target = [NoSong EXCEPT !.id = target_id],
                 !.target_id = target_id,
                 !.should_alias = should_alias, !.op = "merge_into",
                 !.target_scores = {x \in scores : x.song_id = target_id},
                 !.own_scores = {x \in scores : x.song_id = s.id}]
    /\ UNCHANGED <<rivalries, merges, result, songs, extra_song_info, scores, redis,
                   next_song_id, next_score_id, foc, hist, undec>>

\* songs.find(target).first(conn)?, then the Scores of the target and of self.
\* A target id that denotes no Song is Err(NotFound).
MergeStart(s, target_id, should_alias) ==
    /\ CanStart
    /\ s \in songs
    /\ target_id # s.id
    /\ ops' = ops + 1
    /\ pre' = Store
    /\ log' = <<>>
    /\ IF \E t \in songs : t.id = target_id
       THEN LET t == CHOOSE x \in songs : x.id = target_id
            IN /\ pc' = "m_loop"
               /\ loc' = [IdleLoc EXCEPT
                            !.self = s, !.target = t, !.target_id = target_id,
                            !.should_alias = should_alias, !.op = "merge_into",
                            !.target_scores = {x \in scores : x.song_id = t.id},
                            !.own_scores = {x \in scores : x.song_id = s.id}]
               /\ UNCHANGED <<result, merges>>
       ELSE LET r == [NoResult EXCEPT !.op = "merge_into", !.status = "Err",
                                      !.id = s.id, !.target_id = target_id,
                                      !.should_alias = should_alias]
            IN /\ pc' = "idle"
               /\ loc' = IdleLoc
               /\ result' = r
               /\ merges' = Append(merges, [result |-> r, pre |-> Store])
    /\ UNCHANGED <<rivalries, songs, extra_song_info, scores, redis, next_song_id,
                   next_score_id, foc, hist, undec>>

\* (mutant) the Scores of the target are not consulted
FindTarget_None(own) == {}

\* (mutant) the league is not compared
FindTarget_AnyLeague(own) ==
    {t \in loc.target_scores : t.player_id = own.player_id}

\* target_scores.iter_mut().find(|found| same player_id and league)
FindTarget(own) ==
    {t \in loc.target_scores : t.player_id = own.player_id /\ t.league = own.league}

\* (mutant) the comparison the other way round
TargetIsLower_Flipped(tgt, own) == tgt.score > own.score

\* if target_score.score < own_score.score
TargetIsLower(tgt, own) == tgt.score < own.score

\* own_score.song_id = target.id; own_score.play_count += target_score.play_count
MovedOwn(own, tgt) ==
    [own EXCEPT !.song_id = loc.target.id, !.play_count = @ + tgt.play_count]

\* target_score.play_count += own_score.play_count
GrownTarget(tgt, own) == [tgt EXCEPT !.play_count = @ + own.play_count]

\* None => diesel::update(&own_score).set(song_id.eq(target.id))
MergeRepoint ==
    /\ pc = "m_loop"
    /\ \E own \in loc.own_scores :
         /\ FindTarget(own) = {}
         /\ scores' = {IF x.id = own.id THEN [x EXCEPT !.song_id = loc.target.id] ELSE x
                        : x \in scores}
         /\ loc' = [loc EXCEPT !.own_scores = @ \ {own}]
    /\ UNCHANGED <<rivalries, merges, songs, extra_song_info, redis, next_song_id,
                   next_score_id,
                   pc, foc, result, pre, log, hist, undec, ops>>

\* Some(target_score), target lower: target_score.delete(conn, redis_conn)
MergeDeleteTarget ==
    /\ pc = "m_loop"
    /\ \E own \in loc.own_scores : \E tgt \in FindTarget(own) :
         /\ TargetIsLower(tgt, own)
         /\ ScoreDeleteDurable(tgt, "m_save_own",
                [loc EXCEPT !.own_scores = @ \ {own}, !.own = own, !.tgt = tgt])
    /\ UNCHANGED <<rivalries, merges, songs, extra_song_info, redis, next_song_id,
                   next_score_id,
                   foc, result, pre, log, hist, ops>>

\* ... then own_score.save_changes(conn), re-pointed and with the play counts added
MergeSaveOwn ==
    /\ pc = "m_save_own"
    /\ scores' = SaveRow(scores, MovedOwn(loc.own, loc.tgt))
    /\ pc' = "m_loop"
    /\ loc' = [loc EXCEPT !.own = NoScore, !.tgt = NoScore]
    /\ UNCHANGED <<rivalries, merges, songs, extra_song_info, redis, next_song_id,
                   next_score_id,
                   foc, result, pre, log, hist, undec, ops>>

\* Some(target_score), else: target_score.play_count += ...; target_score.save_changes(conn)
MergeSaveTarget ==
    /\ pc = "m_loop"
    /\ \E own \in loc.own_scores : \E tgt \in FindTarget(own) :
         /\ ~TargetIsLower(tgt, own)
         /\ scores' = SaveRow(scores, GrownTarget(tgt, own))
         /\ loc' = [loc EXCEPT !.own_scores = @ \ {own}, !.own = own,
                               !.target_scores = (@ \ {tgt}) \cup {GrownTarget(tgt, own)}]
    /\ pc' = "m_del_own"
    /\ UNCHANGED <<rivalries, merges, songs, extra_song_info, redis, next_song_id,
                   next_score_id,
                   foc, result, pre, log, hist, undec, ops>>

\* (mutant) the row is deleted with diesel::delete, not Score::delete: no cache write
MergeDeleteOwn_Raw ==
    /\ pc = "m_del_own"
    /\ scores' = DeleteRow(scores, loc.own)
    /\ pc' = "m_loop"
    /\ loc' = [loc EXCEPT !.own = NoScore]
    /\ UNCHANGED <<rivalries, merges, songs, extra_song_info, redis, next_song_id,
                   next_score_id,
                   foc, result, pre, log, hist, undec, ops>>

\* ... then own_score.delete(conn, redis_conn)
MergeDeleteOwn ==
    /\ pc = "m_del_own"
    /\ ScoreDeleteDurable(loc.own, "m_loop", [loc EXCEPT !.own = NoScore])
    /\ UNCHANGED <<rivalries, merges, songs, extra_song_info, redis, next_song_id,
                   next_score_id,
                   foc, result, pre, log, hist, ops>>

\* if let Some(target_extra_info): the aliases are pushed onto a clone
\* (aliases_artist.clone().unwrap_or_default().push(..)) that is dropped at once;
\* save_changes then writes the row as it was loaded.
AliasedInfo(e, s) == e

\* else: NewExtraSongInfo with the duplicate's own artist and title as aliases
FirstAliasInfo(t, s) == NewInfo(t.id, NULL, NULL, <<s.title>>, <<s.artist>>)

\* if should_alias { ... }, after the loop.
MergeAlias ==
    /\ pc = "m_loop"
    /\ loc.own_scores = {}
    /\ IF loc.should_alias
       THEN extra_song_info' =
              IF \E e \in extra_song_info : e.song_id = loc.target.id
              THEN LET e == CHOOSE x \in extra_song_info : x.song_id = loc.target.id
                   IN (extra_song_info \ {e}) \cup {AliasedInfo(e, loc.self)}
              ELSE extra_song_info \cup {FirstAliasInfo(loc.target, loc.self)}
       ELSE UNCHANGED extra_song_info
    /\ pc' = "d_load"
    /\ UNCHANGED <<rivalries, merges, songs, scores, redis, next_song_id, next_score_id,
                   loc, foc,
                   result, pre, log, hist, undec, ops>>

\* ----------------------------------------------------------------- send_ride
\* Tickets of the two players, and one Steam rejects.
Tickets == {"ticket1", "ticket2", "expired"}

\* What ticket_auth does in a test build (cfg!(test)), done in every build: the
\* fixed SteamId is returned for whatever ticket. (mutant)
TicketAuth_TestId(ticket) == 1

\* ticket_auth, then Player::find_by_steam_id: the player id, or 0 for Err
\* ("Failed to authenticate with Steam").
TicketAuth(ticket) == CASE ticket = "ticket1" -> 1
                        [] ticket = "ticket2" -> 2
                        [] OTHER -> 0

\* payload.density, one of the other i32 fields of a ride
Densities == {1, MaxScore}

\* The delimited numeric fields of a ride, already cut at their separator.
Fields == {<<"10", "20">>, <<"10", "zz">>}

\* str::parse::<i32> succeeds
IsNumber(tok) == tok \in {"10", "20"}

\* (mutant) tokens that do not parse are skipped (filter_map(.. .ok())), not refused
ParseOk_SkipBad(field) == TRUE

\* split_x_separated::<i32>(..)? and .split(',').map(str::parse).collect::<Result<..>>()?
ParseOk(field) == \A i \in 1..Len(field) : IsNumber(field[i])

\* beat_score of the response: "TODO: Properly implement dethroning"
BeatScore == [dethroned |-> TRUE, friend |-> TRUE, rival_name |-> "test",
              rival_score |-> 143]

\* Ok(Xml(SendRideResponse { .. })) for the request (ticket, track_shape, xstats, ...)
RideResult(status, ticket, sid, lg, v, track_shape, xstats) ==
    [NoResult EXCEPT !.op = "send_ride", !.status = status, !.id = sid,
                     !.ticket = ticket, !.league = lg, !.score = v,
                     !.track_shape = track_shape, !.xstats = xstats,
                     !.beat_score = BeatScore]

\* Err(RouteError) of a request turned away before create_or_update
RideError(kind, ticket, track_shape, xstats) ==
    [NoResult EXCEPT !.op = "send_ride", !.status = "Err", !.error = kind,
                     !.ticket = ticket, !.track_shape = track_shape,
                     !.xstats = xstats]

\* The Score create_or_update looks up: same player, song and league.
Existing(p, sid, lg) ==
    {x \in scores : x.player_id = p /\ x.song_id = sid /\ x.league = lg}

HistOf(p, sid, lg) ==
    IF \E h \in hist : h.player_id = p /\ h.song_id = sid /\ h.league = lg
    THEN CHOOSE h \in hist : h.player_id = p /\ h.song_id = sid /\ h.league = lg
    ELSE [player_id |-> p, song_id |-> sid, league |-> lg, n |-> 0, max |-> 0,
          credit |-> 0]

HistPut(h) ==
    {x \in hist : ~(x.player_id = h.player_id /\ x.song_id = h.song_id
                    /\ x.league = h.league)} \cup {h}

Max(a, b) == IF a >= b THEN a ELSE b

\* NewScore::create_or_update, existing Score: the play count is incremented, and
\* the stored value is overwritten only by a greater one.
Reconciled(old, v) ==
    [old EXCEPT !.play_count = @ + 1, !.score = IF v > old.score THEN v ELSE old.score]

\* NewScore::create_or_update, no Score yet: play_count = 1
FirstScore(id, p, sid, lg, v) ==
    [id |-> id, player_id |-> p, song_id |-> sid, league |-> lg, score |-> v,
     play_count |-> 1]

\* What the durable write of create_or_update leaves for the cache: the value of
\* a new Score, the improvement of an existing one.
CacheDelta(old, v) == IF v > old.score THEN v - old.score ELSE 0

\* (mutant) another i32 of the payload is passed as the score
SubmittedScore_Density(payload) == payload.density

\* The score argument of NewScore::new: payload.score
SubmittedScore(payload) == payload.score

\* send_ride up to and including the durable write of create_or_update.
SendRide(ticket, sid, lg, v, dn, track_shape, xstats) ==
    /\ pc = "idle" /\ AllFocIdle /\ ops < MaxRides
    /\ ops' = ops + 1
    /\ pre' = Store
    /\ log' = <<>>
    /\ LET p == TicketAuth(ticket)
           val == SubmittedScore([score |-> v, density |-> dn])
           err(kind) == /\ UNCHANGED <<scores, next_score_id, pc, loc, hist>>
                        /\ result' = RideError(kind, ticket, track_shape, xstats)
       IN IF p = 0 THEN err("AuthenticationFailure")
          ELSE IF ~ParseOk(track_shape) \/ ~ParseOk(xstats)
          THEN err("ValidationFailure")
          ELSE IF ~(\E x \in songs : x.id = sid) THEN err("StoreFailure")
          ELSE LET h == HistOf(p, sid, lg)
                   h2 == [h EXCEPT !.n = @ + 1, !.max = Max(@, v)]
               IN IF Existing(p, sid, lg) = {}
                  THEN /\ scores' = scores \cup {FirstScore(next_score_id, p, sid, lg, val)}
                       /\ next_score_id' = next_score_id + 1
                       /\ hist' = HistPut(h2)
                       /\ pc' = "r_cache"
                       /\ loc' = [IdleLoc EXCEPT !.op = "send_ride",
                                    !.ride = FirstScore(0, p, sid, lg, val),
                                    !.own = FirstScore(0, p, sid, lg, v),
                                    !.ticket = ticket, !.track_shape = track_shape,
                                    !.xstats = xstats]
                       /\ UNCHANGED result
                  ELSE \E old \in Existing(p, sid, lg) :
                       /\ scores' = SaveRow(scores, Reconciled(old, val))
                       /\ hist' = HistPut(h2)
                       /\ UNCHANGED next_score_id
                       /\ IF CacheDelta(old, val) > 0
                          THEN /\ pc' = "r_cache"
                               /\ loc' = [IdleLoc EXCEPT !.op = "send_ride",
                                    !.ride = FirstScore(0, p, sid, lg, CacheDelta(old, val)),
                                    !.own = FirstScore(0, p, sid, lg, v),
                                    !.ticket = ticket, !.track_shape = track_shape,
                                    !.xstats = xstats]
                               /\ UNCHANGED result
                          ELSE /\ UNCHANGED <<pc, loc>>
                               /\ result' = RideResult("Ok", ticket, sid, lg, v,
                                                       track_shape, xstats)
    /\ UNCHANGED <<rivalries, merges, songs, extra_song_info, redis, next_song_id,
                   foc, undec>>

\* create_or_update, after the durable write: the cache write; send_ride returns.
RideCache ==
    /\ pc = "r_cache"
    /\ redis' = [redis EXCEPT ![loc.ride.player_id] = @ + loc.ride.score]
    /\ hist' = LET h == HistOf(loc.ride.player_id, loc.ride.song_id, loc.ride.league)
               IN HistPut([h EXCEPT !.credit = @ + loc.ride.score])
    /\ result' = RideResult("Ok", loc.ticket, loc.own.song_id, loc.own.league,
                            loc.own.score, loc.track_shape, loc.xstats)
    /\ pc' = "idle"
    /\ loc' = IdleLoc
    /\ UNCHANGED <<rivalries, merges, songs, extra_song_info, scores, next_song_id,
                   next_score_id,
                   foc, pre, log, undec, ops>>

\* ---------------------------------------------------------------- rivalries
\* A row of rivalries (primary key: challenger_id, rival_id)
Rivalry(challenger_id, rival_id) ==
    [challenger_id |-> challenger_id, rival_id |-> rival_id]

RivalryResult(name, status, r) ==
    [NoResult EXCEPT !.op = name, !.status = status,
                     !.challenger_id = r.challenger_id, !.rival_id = r.rival_id]

\* NewRivalry::create: diesel::insert_into(rivalries::table).values(self); a row
\* with the same primary key makes the insert fail.
NewRivalryCreate(challenger_id, rival_id) ==
    /\ pc = "idle" /\ AllFocIdle
    /\ pre' = Store
    /\ log' = <<>>
    /\ LET r == Rivalry(challenger_id, rival_id)
       IN IF r \in rivalries
          THEN /\ result' = [RivalryResult("NewRivalry::create", "Err", r)
                                EXCEPT !.error = "StoreFailure"]
               /\ UNCHANGED rivalries
          ELSE /\ result' = RivalryResult("NewRivalry::create", "Ok", r)
               /\ rivalries' = rivalries \cup {r}
    /\ UNCHANGED <<songs, extra_song_info, scores, redis, next_song_id,
                   next_score_id, pc, loc, foc, hist, undec, ops, merges>>

\* rivalries.filter(challenger_id.eq(self.rival_id)).filter(rival_id.eq(self.challenger_id))
ReverseRows(self) ==
    {x \in rivalries : /\ x.challenger_id = self.rival_id
                       /\ x.rival_id = self.challenger_id}

\* Rivalry::is_mutual: .get_result::<Self>(conn).await.is_ok().  get_result is Err
\* when no row matches (NotFound) and when the store fails the query; is_ok() makes
\* false of both.  result.error tells the two apart for the reader of a trace.
IsMutual(self, query) ==
    /\ pc = "idle" /\ AllFocIdle
    /\ self \in rivalries
    /\ pre' = Store
    /\ log' = <<>>
    /\ LET get_result == IF query = "Err" THEN "Err"
                         ELSE IF ReverseRows(self) = {} THEN "Err" ELSE "Ok"
       IN result' = [RivalryResult("is_mutual", "Ok", self)
                       EXCEPT !.mutual = (get_result = "Ok"),
                              !.error = IF query = "Err" THEN "StoreFailure" ELSE NULL]
    /\ UNCHANGED <<songs, extra_song_info, scores, redis, next_song_id,
                   next_score_id, pc, loc, foc, hist, undec, ops, rivalries, merges>>

\* ------------------------------------------------------- initial stores
MaxId(S) == IF S = {} THEN 0 ELSE CHOOSE n \in {x.id : x \in S} : \A x \in S : x.id <= n

\* A store at rest: no operation in flight, the cache exact.
InitWith(S, E, SC) ==
    /\ songs = S
    /\ extra_song_info = E
    /\ scores = SC
    /\ redis = [p \in Players |-> ScoreSum(SC, p)]
    /\ next_song_id = MaxId(S) + 1
    /\ next_score_id = MaxId(SC) + 1
    /\ pc = "idle"
    /\ loc = IdleLoc
    /\ foc = [c \in Callers |-> IdleFoc]
    /\ result = NoResult
    /\ pre = [songs |-> S, extra |-> E, scores |-> SC,
              redis |-> [p \in Players |-> ScoreSum(SC, p)], rivalries |-> {}]
    /\ log = <<>>
    /\ hist = {}
    /\ undec = [p \in Players |-> 0]
    /\ ops = 0
    /\ rivalries = {}
    /\ merges = <<>>

\* The extra_song_info rows a song can have: MusicBrainz metadata (auto_add_metadata,
\* add_metadata_mbid) or the aliases an aliasing merge created (merge_into).
AliasRows(sid) ==
    {NewInfo(sid, NULL, NULL, <<at>>, <<aa>>) : at \in Titles, aa \in Artists}

\* The duplicate and the target of a merge, two songs of different names.
Dup == [id |-> 1, title |-> "bar", artist |-> "ABBA"]
Target == [id |-> 2, title |-> "foo", artist |-> "abba"]

Triples == Players \X {Dup.id, Target.id} \X Leagues

\* scores.id is a serial: the row of a triple gets the place of the triple.
ScoreIdOf(tr) == (tr[2] - 1) * 4 + (tr[1] - 1) * 2 + (IF tr[3] = "Casual" THEN 1 ELSE 2)

InitPlayCounts == {1, MaxPlayCount}

\* Score tables of up to three rows on the two songs, at most one row per
\* (player, song, league).
InitScoreTables ==
    UNION {
      {{[id |-> ScoreIdOf(tr), player_id |-> tr[1], song_id |-> tr[2], league |-> tr[3],
         score |-> f[tr][1], play_count |-> f[tr][2]] : tr \in T}
        : f \in [T -> (1..MaxScore) \X InitPlayCounts]}
      : T \in {X \in SUBSET Triples : Cardinality(X) <= 3}}

\* The merge: the two songs, the target with or without an extra_song_info row,
\* any of the score tables.
InitMerge ==
    \E SC \in InitScoreTables :
      \E E \in {{}, {NewInfo(Target.id, "foo", "abba", <<>>, <<>>)}} :
        InitWith({Dup, Target}, E, SC)

\* One merge of the duplicate, into any song id, or one deletion of a song.
NextMerge ==
    \/ /\ ops = 0
       /\ \E tid \in 1..MaxSongId, al \in BOOLEAN : MergeStart(Dup, tid, al)
    \/ /\ ops = 0
       /\ \E s \in songs : DeleteStart(s)
    \/ MergeRepoint
    \/ MergeDeleteTarget
    \/ MergeSaveOwn
    \/ MergeSaveTarget
    \/ MergeDeleteOwn
    \/ MergeAlias
    \/ DeleteLoad
    \/ DeleteScore
    \/ DeleteSong
    \/ ScoreDeleteCache

SpecMerge == InitMerge /\ [][NextMerge]_vars

\* Rides: the two songs, no Score yet.
InitRide == InitWith({Dup, Target}, {}, {})

\* A request send_ride turns away before create_or_update: the ticket, a delimited
\* field or the song id is bad.
Rejected(tk, sid, ts, xs) ==
    TicketAuth(tk) = 0 \/ ~ParseOk(ts) \/ ~ParseOk(xs) \/ ~(\E x \in songs : x.id = sid)

\* The requests of clients.  What a rejected request holds beside the field that
\* rejects it makes no difference to any state, so one value stands for each.
Rides ==
    /\ ops < MaxRides
    /\ \/ \E tk \in Tickets, sid \in 1..next_song_id, ts \in Fields, xs \in Fields :
            /\ Rejected(tk, sid, ts, xs)
            /\ SendRide(tk, sid, "Casual", 1, 1, ts, xs)
       \/ \E tk \in {k \in Tickets : TicketAuth(k) # 0}, sid \in {x.id : x \in songs},
             lg \in Leagues, v \in 1..MaxScore, dn \in Densities,
             ts \in {f \in Fields : ParseOk(f)}, xs \in {f \in Fields : ParseOk(f)} :
            SendRide(tk, sid, lg, v, dn, ts, xs)

NextRide ==
    \/ Rides
    \/ RideCache

SpecRide == InitRide /\ [][NextRide]_vars

\* A Score of player 1 in league Casual
ScoreOn(id, sid, v, n) ==
    [id |-> id, player_id |-> 1, song_id |-> sid, league |-> "Casual", score |-> v,
     play_count |-> n]

\* The merge of the duplicate into the target and the deletion of a song, able to
\* fail at every await and to run again after a failure: the score tables of up to
\* two rows.
InitRecover ==
    \E SC \in {T \in InitScoreTables : Cardinality(T) <= 2} :
        InitWith({Dup, Target}, {}, SC)

NextRecover ==
    \/ \E al \in BOOLEAN : MergeStart(Dup, Target.id, al)
    \/ \E s \in songs : DeleteStart(s)
    \/ MergeRepoint
    \/ MergeDeleteTarget
    \/ MergeSaveOwn
    \/ MergeSaveTarget
    \/ MergeDeleteOwn
    \/ MergeAlias
    \/ DeleteLoad
    \/ DeleteScore
    \/ DeleteSong
    \/ ScoreDeleteCache
    \/ Fail

SpecRecover == InitRecover /\ [][NextRecover]_vars

\* An aliasing (or plain) merge of the duplicate into the target, then the resolver:
\* the target with or without an extra_song_info row, at most one Score.
InitAlias ==
    \E SC \in {T \in InitScoreTables : Cardinality(T) <= 1} :
      \E E \in {{}, {NewInfo(Target.id, "foo", "abba", <<>>, <<>>)}} :
        InitWith({Dup, Target}, E, SC)

NextAlias ==
    \/ \E al \in BOOLEAN : MergeStart(Dup, Target.id, al)
    \/ MergeRepoint
    \/ MergeAlias
    \/ DeleteLoad
    \/ DeleteSong
    \/ \E c \in Callers, t \in Titles, a \in Artists : FocQuery(c, t, a)
    \/ \E c \in Callers : FocInsert(c)

SpecAlias == InitAlias /\ [][NextAlias]_vars

\* Rivalries and rides: the two songs, no Score and no Rivalry yet.
InitRivalry == InitWith({Dup, Target}, {}, {})

NextRivalry ==
    \/ \E a \in Players, b \in Players : NewRivalryCreate(a, b)
    \/ \E r \in rivalries, q \in {"Ok", "Err"} : IsMutual(r, q)
    \/ ops < MaxOps /\ Rides
    \/ RideCache

SpecRivalry == InitRivalry /\ [][NextRivalry]_vars

\* Rides, merges and deletions in any order, each of which may fail at any statement:
\* from no Score at all, and from a Score of one player and league on each song, the
\* higher one on the duplicate or on the target.
Init ==
    \E SC \in {{},
                {ScoreOn(1, Dup.id, MaxScore, 1), ScoreOn(2, Target.id, 1, MaxPlayCount)},
                {ScoreOn(1, Dup.id, 1, MaxPlayCount), ScoreOn(2, Target.id, MaxScore, 1)}} :
        InitWith({Dup, Target}, {}, SC)

Next ==
    \/ ops < MaxOps /\ Rides
    \/ RideCache
    \/ \E s \in songs, tid \in 1..next_song_id, al \in BOOLEAN : MergeStart(s, tid, al)
    \/ MergeRepoint
    \/ MergeDeleteTarget
    \/ MergeSaveOwn
    \/ MergeSaveTarget
    \/ MergeDeleteOwn
    \/ MergeAlias
    \/ \E s \in songs : DeleteStart(s)
    \/ DeleteLoad
    \/ DeleteScore
    \/ DeleteSong
    \/ ScoreDeleteCache
    \/ Fail

Spec == Init /\ [][Next]_vars

\* The resolver: an empty store, or one song with or without an extra_song_info row.
InitResolve ==
    \/ InitWith({}, {}, {})
    \/ \E t \in Titles, a \in Artists :
         \E E \in {{}} \cup {{e} : e \in AliasRows(1)} :
            InitWith({[id |-> 1, title |-> t, artist |-> a]}, E, {})

NextResolve ==
    \/ \E c \in Callers, t \in Titles, a \in Artists : FocQuery(c, t, a)
    \/ \E c \in Callers : FocInsert(c)
    \/ \E s \in songs, mt \in Titles, ma \in Artists : AutoAddMetadata(s, mt, ma)
    \/ \E s \in songs, mt \in Titles, ma \in Artists : AddMetadataMbid(s, mt, ma)

SpecResolve == InitResolve /\ [][NextResolve]_vars

\* ===================================================== claims: the resolver
\* C1 (as claimed): two find_or_create calls with the same (title, artist), made in
\* immediate succession with no other operation in between, return the same Song id,
\* and the second inserts no Song row.
C1_ResolveTwiceSameSong ==
    (Len(log) = 2 /\ log[1].title = log[2].title /\ log[1].artist = log[2].artist)
        => (log[2].id = log[1].id /\ ~log[2].inserted)

\* The matching policy as the specification words it: per field, the Song's own
\* field, or the normalized external field ignoring letter case, or an alias.
PolicyField(own, ext, aliases, x) ==
    \/ own = x
    \/ (ext # NULL /\ Lower(ext) = Lower(x))
    \/ Contains(aliases, x)

PolicyMatch(s, E, t, a) ==
    \/ (s.title = t /\ s.artist = a)
    \/ \E e \in E :
         /\ e.song_id = s.id
         /\ PolicyField(s.title, e.musicbrainz_title, e.aliases_title, t)
         /\ PolicyField(s.artist, e.musicbrainz_artist, e.aliases_artist, a)

\* C6 (as claimed): whenever a Song of the store matches the input under the policy,
\* find_or_create returns a matching Song and inserts nothing.
C6_MatchingPolicy ==
    (result.op = "find_or_create"
     /\ \E s \in pre.songs : PolicyMatch(s, pre.extra, result.title, result.artist))
        => /\ ~result.inserted
           /\ \E s \in pre.songs :
                 s.id = result.id /\ PolicyMatch(s, pre.extra, result.title, result.artist)

\* ======================================================== claims: the merge
MergeDone == pc = "idle" /\ result.op = "merge_into" /\ result.status = "Ok"

OnSong(tbl, sid) == {x \in tbl : x.song_id = sid}

SamePL(x, y) == x.player_id = y.player_id /\ x.league = y.league

\* The (duplicate Score, target Score) pairs of one player and league before the merge
Overlaps ==
    {pr \in OnSong(pre.scores, result.id) \X OnSong(pre.scores, result.target_id) :
        SamePL(pr[1], pr[2])}

\* C2: after a successful merge, for every player and league with a Score on the
\* duplicate (v_d, p_d) and on the target (v_t, p_t), exactly one Score of that player
\* and league is on the target, with value max(v_d, v_t) and play count p_d + p_t, and
\* the duplicate Song row is gone.
C2_MergeConservation ==
    MergeDone =>
        /\ \A x \in songs : x.id # result.id
        /\ \A pr \in Overlaps :
             LET S == {x \in OnSong(scores, result.target_id) : SamePL(x, pr[1])}
             IN /\ Cardinality(S) = 1
                /\ \A x \in S : /\ x.score = Max(pr[1].score, pr[2].score)
                                /\ x.play_count = pr[1].play_count + pr[2].play_count

\* C2's case: a merge finished over an overlapping pair where the duplicate's Score
\* was the higher one and the play counts differed, beside a Score without overlap.
C2_Witness ==
    /\ MergeDone
    /\ \E pr \in Overlaps : pr[1].score > pr[2].score /\ pr[1].play_count # pr[2].play_count
    /\ \E d \in OnSong(pre.scores, result.id) : \A pr \in Overlaps : pr[1] # d

CacheExact(tbl, cache) == \A p \in Players : cache[p] = ScoreSum(tbl, p)

\* C3: if the cache was exact before the merge (every player's skill points the sum of
\* the player's durable Score values), it is exact again after a successful merge.
C3_MergeKeepsCacheExact ==
    (MergeDone /\ CacheExact(pre.scores, pre.redis)) => CacheExact(scores, redis)

\* C3's case: a merge finished that deleted a Score, so that a cache entry changed.
C3_Witness ==
    /\ MergeDone
    /\ CacheExact(pre.scores, pre.redis)
    /\ Overlaps # {}
    /\ \E p \in Players : redis[p] < pre.redis[p]

C5_MergeAliases ==
    (MergeDone /\ result.should_alias) =>
        LET rows == {e \in extra_song_info : e.song_id = result.target_id}
        IN /\ Cardinality(rows) = 1
           /\ \A e \in rows :
                \E d \in pre.songs :
                  /\ d.id = result.id
                  /\ Contains(e.aliases_title, d.title)
                  /\ Contains(e.aliases_artist, d.artist)

\* C7: after a successful merge with no (player, league) shared between the duplicate's
\* and the target's Scores, every former duplicate Score is on the target with its value
\* and play count unchanged, every Score the target had is unchanged, and no cache entry
\* has changed.
C7_MergeWithoutOverlap ==
    (MergeDone /\ Overlaps = {}) =>
        /\ \A d \in OnSong(pre.scores, result.id) :
             [d EXCEPT !.song_id = result.target_id] \in scores
        /\ \A t \in OnSong(pre.scores, result.target_id) : t \in scores
        /\ Cardinality(scores) = Cardinality(pre.scores)
        /\ redis = pre.redis

\* C7's case: a merge without overlap finished; the duplicate and the target had
\* Scores, two of them of the same player in different leagues.
C7_Witness ==
    /\ MergeDone
    /\ Overlaps = {}
    /\ \E d \in OnSong(pre.scores, result.id), t \in OnSong(pre.scores, result.target_id) :
         d.player_id = t.player_id /\ d.league # t.league

\* ========================================================= claims: the rides
RideDone == pc = "idle" /\ result.op = "send_ride" /\ result.status = "Ok"

\* The player a ticket belongs to
OwnerOf(ticket) == IF ticket = "ticket1" THEN 1 ELSE 2

\* The Score the player of the last ride had for its song and league before the ride
StoredBefore ==
    {x \in pre.scores : /\ x.player_id = OwnerOf(result.ticket)
                        /\ x.song_id = result.id
                        /\ x.league = result.league}

RECURSIVE SumMax(_)
SumMax(H) == IF H = {} THEN 0
             ELSE LET h == CHOOSE x \in H : TRUE
                  IN h.max + SumMax(H \ {h})

\* C8: starting from no Score, after any sequence of accepted rides of a player on a song
\* and league, the stored value is the maximum of the submitted values, play_count is
\* the number of rides, and the cache was credited by exactly that maximum.
C8_RideSequence ==
    pc = "idle" =>
        /\ \A h \in hist :
             LET S == {x \in scores : x.player_id = h.player_id /\ x.song_id = h.song_id
                                       /\ x.league = h.league}
             IN /\ Cardinality(S) = 1
                /\ \A x \in S : x.score = h.max /\ x.play_count = h.n
                /\ h.credit = h.max
        /\ \A p \in Players : redis[p] = SumMax({h \in hist : h.player_id = p})

\* C8's case: three rides on one triple, the last one below the maximum, and rides on
\* no other triple of the player.
C8_Witness ==
    /\ pc = "idle"
    /\ \E h \in hist : h.n = 3 /\ h.max = MaxScore /\ result.score < h.max

\* C9: a ride above the stored value overwrites it and raises the player's cache entry
\* by exactly (new - old); no other player's entry changes.
C9_RideImprovement ==
    RideDone =>
        \A old \in StoredBefore :
            result.score > old.score =>
                /\ [old EXCEPT !.score = result.score, !.play_count = @ + 1] \in scores
                /\ redis[old.player_id] = pre.redis[old.player_id] + (result.score - old.score)
                /\ \A q \in Players \ {old.player_id} : redis[q] = pre.redis[q]

\* C9's case: an accepted ride above the stored value, the other player holding points.
C9_Witness ==
    /\ RideDone
    /\ \E old \in StoredBefore : result.score > old.score
    /\ \E q \in Players \ {OwnerOf(result.ticket)} : redis[q] > 0

\* C10: a ride not above the stored value leaves the stored value, increments play_count
\* by exactly 1 and leaves the cache as it was.
C10_RideNoImprovement ==
    RideDone =>
        \A old \in StoredBefore :
            result.score <= old.score =>
                /\ [old EXCEPT !.play_count = @ + 1] \in scores
                /\ Cardinality(scores) = Cardinality(pre.scores)
                /\ redis = pre.redis

\* C10's case: an accepted ride equal to the stored value, after one below it.
C10_Witness ==
    /\ RideDone
    /\ \E old \in StoredBefore : result.score = old.score /\ old.play_count = 2
\* ======================================================= claims: rivalries
\* The player of the last ride
Rider == OwnerOf(result.ticket)

\* The Scores the rider's rivals (challenger: the rider) held on the song and league
\* of the last ride before it
RivalScores ==
    {x \in pre.scores : /\ x.song_id = result.id
                        /\ x.league = result.league
                        /\ Rivalry(Rider, x.player_id) \in pre.rivalries}

BestRivalScores == {x \in RivalScores : \A y \in RivalScores : y.score <= x.score}

\* C11 (as claimed): the response of an accepted ride reports a dethroning exactly when
\* the submitted value exceeds the best Score a rival held on the song and league
\* before the ride (never when no rival has a Score); then friend tells whether the
\* reverse Rivalry exists, and rival_score is that rival's Score.
C11_DethroningReport ==
    RideDone =>
        /\ result.beat_score.dethroned <=>
              \E x \in BestRivalScores : result.score > x.score
        /\ result.beat_score.dethroned =>
              \E x \in BestRivalScores :
                 /\ result.beat_score.rival_score = x.score
                 /\ result.beat_score.friend <=>
                       (Rivalry(x.player_id, Rider) \in pre.rivalries)

\* C12 (as claimed): is_mutual on a stored Rivalry (A -> B) returns true exactly when
\* the row (B -> A) is stored, and leaves the rivalries as they were.
C12_IsMutual ==
    (pc = "idle" /\ result.op = "is_mutual") =>
        /\ result.mutual <=>
              (Rivalry(result.rival_id, result.challenger_id) \in rivalries)
        /\ rivalries = pre.rivalries
\* ================================================ claims: rejected requests
RideReturned == pc = "idle" /\ result.op = "send_ride"

\* A delimited field with a token that is no number
Malformed(field) == \E i \in 1..Len(field) : ~IsNumber(field[i])

\* C13: a ride whose ticket Steam rejects returns Err, and the durable store (songs,
\* extra_song_info, scores, rivalries) and the cache are as before it.
C13_AuthFailureWritesNothing ==
    (RideReturned /\ result.ticket = "expired") =>
        /\ result.status = "Err"
        /\ Store = pre

\* C13's case: a ticket was rejected in a store that holds Scores and skill points.
C13_Witness ==
    /\ RideReturned
    /\ result.error = "AuthenticationFailure"
    /\ scores # {}
    /\ \E p \in Players : redis[p] > 0

\* C14: a ride whose track_shape or xstats is malformed returns Err; no Score is
\* inserted or updated, no play_count and no cache entry changes.
C14_ValidationFailureWritesNothing ==
    (RideReturned /\ (Malformed(result.track_shape) \/ Malformed(result.xstats))) =>
        /\ result.status = "Err"
        /\ scores = pre.scores
        /\ redis = pre.redis

\* C14's case: an authenticated ride on a song the rider has a Score on was refused
\* for its xstats alone.
C14_Witness ==
    /\ RideReturned
    /\ result.error = "ValidationFailure"
    /\ Malformed(result.xstats) /\ ~Malformed(result.track_shape)
    /\ \E x \in scores : x.player_id = OwnerOf(result.ticket)
\* ================================================== claims: the resolver race
\* The Songs of a table with this title and artist
Named(S, t, a) == {x \in S : x.title = t /\ x.artist = a}

\* C15: no lock and no second look stands between the query of find_or_create and
\* its insert: a call that observed no match inserts a Song row of its title and
\* artist, whatever another call has inserted since; so two concurrent calls for a
\* new (title, artist) both insert (the state of C15_Witness).
C15_NoMatchThenInsert ==
    [][\A c \in Callers :
          (foc[c].pc = "insert" /\ foc'[c].pc = "idle") =>
              \E x \in songs' \ songs : x.title = foc[c].title /\ x.artist = foc[c].artist
      ]_vars

\* C15's case: when the call that returned last made its query no Song had its title
\* and artist; it has inserted one, and so has a call that ran meanwhile: two rows.
C15_Witness ==
    /\ AllFocIdle /\ pc = "idle"
    /\ result.op = "find_or_create" /\ result.inserted
    /\ Named(pre.songs, result.title, result.artist) = {}
    /\ Cardinality(Named(songs, result.title, result.artist)) = 2
\* ================================================= claims: Song::delete
DeleteReturned == pc = "idle" /\ result.op = "delete"

\* C16: Song::delete removes the Scores of the song, each with its cache write, before
\* the Song row: no Score ever references a Song that is gone; while Song::delete runs
\* and after it has failed the Song row is there; after it has succeeded the row and
\* the Scores of the song are gone and every player's cache entry is lower by the
\* values of the player's Scores on the song.
C16_DeleteCascadeOrder ==
    /\ \A sc \in scores : \E x \in songs : x.id = sc.song_id
    /\ (pc # "idle" /\ loc.op = "delete") => loc.self \in songs
    /\ (DeleteReturned /\ result.status = "Err") => \E x \in songs : x.id = result.id
    /\ (DeleteReturned /\ result.status = "Ok") =>
          /\ \A x \in songs : x.id # result.id
          /\ OnSong(scores, result.id) = {}
          /\ \A p \in Players :
                redis[p] = pre.redis[p] - ScoreSum(OnSong(pre.scores, result.id), p)

\* C16's case: a Song with the Scores of two players was deleted.
C16_Witness ==
    /\ DeleteReturned /\ result.status = "Ok"
    /\ \A p \in Players : \E sc \in OnSong(pre.scores, result.id) : sc.player_id = p
\* ===================================== claims: the merge, step by step
\* At most one Score per (player, song, league)
Unique(tbl) ==
    \A x \in tbl, y \in tbl :
        (x.player_id = y.player_id /\ x.song_id = y.song_id /\ x.league = y.league)
            => x = y

MergeRunning == pc # "idle" /\ loc.op = "merge_into"

MergeReturned == pc = "idle" /\ result.op = "merge_into"

\* C17: a merge that began with at most one Score per (player, song, league) has at
\* most one in every state it passes through and in the state it returns in.
C17_MergeKeepsScoresUnique ==
    ((MergeRunning \/ MergeReturned) /\ Unique(pre.scores)) => Unique(scores)

\* C17's case: the merge has re-pointed a duplicate's Score to the target, after the
\* target's Score of the same player and league was deleted, and is still running.
C17_Witness ==
    /\ MergeRunning
    /\ \E d \in OnSong(pre.scores, loc.self.id), t \in OnSong(pre.scores, loc.target.id) :
         /\ SamePL(d, t)
         /\ \E x \in OnSong(scores, loc.target.id) : x.id = d.id
         /\ \A x \in scores : x.id # t.id

\* The duplicate and the target of the merge that is running or has just returned
MergeDupId == IF pc = "idle" THEN result.id ELSE loc.self.id

MergeTargetId == IF pc = "idle" THEN result.target_id ELSE loc.target.id

\* The Scores of player p and league l on the duplicate or on the target
OnEither(tbl, p, l) ==
    {x \in tbl : /\ x.player_id = p /\ x.league = l
                 /\ x.song_id \in {MergeDupId, MergeTargetId}}

\* C18: in every state a merge passes through, and in the state it returns in (with
\* Ok, or with the Err of a failed step), every player and league that had a Score on
\* the duplicate or on the target when the merge began has one there still, with the
\* highest value it had on the two.
C18_BestScoreKept ==
    (MergeRunning \/ MergeReturned) =>
        \A p \in Players, l \in Leagues :
            \A b \in OnEither(pre.scores, p, l) :
                (\A y \in OnEither(pre.scores, p, l) : y.score <= b.score)
                    => \E x \in OnEither(scores, p, l) : x.score = b.score

\* C18's case: a merge failed after it had deleted the target's lower Score and before
\* it saved the duplicate's higher one.
C18_Witness ==
    /\ MergeReturned /\ result.status = "Err"
    /\ \E d \in OnSong(pre.scores, result.id), t \in OnSong(pre.scores, result.target_id) :
         /\ SamePL(d, t) /\ t.score < d.score
         /\ d \in scores
         /\ \A x \in scores : x.id # t.id

\* C19 (as claimed): when merge_into failed once and then ran to success on the same
\* duplicate and target, every player and league that had a Score on both when the
\* first run began has one Score on the target, with the sum of the two play counts.
C19_RerunConservesPlayCounts ==
    (pc = "idle" /\ Len(merges) = 2
     /\ merges[1].result.status = "Err" /\ merges[2].result.status = "Ok") =>
        LET first == merges[1].pre.scores
        IN \A d \in OnSong(first, result.id), t \in OnSong(first, result.target_id) :
              SamePL(d, t) =>
                 \E x \in OnSong(scores, result.target_id) :
                    /\ SamePL(x, d)
                    /\ x.play_count = d.play_count + t.play_count
\* ============================================ claims: aliases and the resolver
\* The merge that returned last
LastMerge == merges[Len(merges)]

\* C20 (as claimed): after a successful merge with should_alias, find_or_create with
\* the title and artist the deleted duplicate had returns the target and inserts no
\* Song, whether or not the target had an extra_song_info row before the merge.
C20_AliasResolvesToTarget ==
    (/\ merges # <<>> /\ Len(log) >= 1
     /\ LastMerge.result.status = "Ok" /\ LastMerge.result.should_alias
     /\ \E d \in LastMerge.pre.songs :
           /\ d.id = LastMerge.result.id
           /\ log[1].title = d.title /\ log[1].artist = d.artist)
        => /\ log[1].id = LastMerge.result.target_id
           /\ ~log[1].inserted
\* ============================================ claims: a merge without a target
\* The target id of the merge that returned denoted no Song when the merge began
TargetMissing == \A x \in pre.songs : x.id # result.target_id

\* C21: merge_into with a target id that denotes no Song returns Err, and every
\* Song, Score, extra_song_info row and cache entry is as it was: the duplicate and
\* its Scores are still there.
C21_MissingTargetChangesNothing ==
    (MergeReturned /\ TargetMissing) =>
        /\ result.status = "Err"
        /\ Store = pre
        /\ \E d \in songs : d.id = result.id

\* C21's case: an aliasing merge of a duplicate that has Scores into an id that
\* denotes no Song has returned.
C21_Witness ==
    /\ MergeReturned /\ TargetMissing
    /\ result.should_alias
    /\ OnSong(scores, result.id) # {}
    /\ \E p \in Players : redis[p] > 0
====
